---- MODULE Spec2Model ----
(***************************************************************************)
(* Reverse-communication driver LinearSolve/iterate (src/solve.go) and the *)
(* iterative methods CG (src/cg.go), BiCG (src/bicg.go), BiCGSTAB and      *)
(* GMRES (src/unnamed/part_004) as resume-label state machines.            *)
(*                                                                         *)
(* Numbers.  Norms and the tolerance are non-negative integers in units of *)
(* 1/Scale, so the real value 1 is Scale and r/bnorm < tol is              *)
(* r*Scale < tol*bnorm.  Vectors are not stored: a method step that        *)
(* computes a norm or a breakdown test from vector data draws the outcome  *)
(* from a small set.  ctx.X is the number of updates the method has made   *)
(* to it; ctx.Residual is the norm of the residual vector.                 *)
(***************************************************************************)
EXTENDS Integers, Sequences, FiniteSets, TLC

\* ------------------------------------------------------------------ bounds
Scale == 4
MaxNorm == 2
MaxDim == 2
MaxIt == 1

\* Tolerances keep their order 2^-53 < 1e-8 < 1e-6 < 1: dlamchE is the smallest
\* positive unit, OldDefaultTolerance is the 1e-8 of the earlier Solve driver,
\* DefaultTolerance the 1e-6 of LinearSolve's defaultSettings.
dlamchE == 1
OldDefaultTolerance == 2
DefaultTolerance == 3

Norms == 0..MaxNorm
\* |b| = 0, a value in (0,1), 1, and 2
BNorms == {0, Scale \div 2, Scale, 2 * Scale}
\* unset, machine epsilon, a half, just below one, one (invalid), negative
\* (invalid)
Tolerances == {0, dlamchE, Scale \div 2, Scale - 1, Scale, -1}
\* NormA unknown (0) and NormA = 1
NormAs == {0, Scale}
\* GMRES.Restart as the caller sets it: negative, unset, and up to MaxDim
Restarts == -1..MaxDim
\* |ctx.X| when the criterion asks for it: zero and a nonzero value
XNorms == {0, MaxNorm}
Methods == {"CG", "BiCG", "BiCGSTAB", "GMRES"}

VARIABLES
    pc,        \* "idle" | "loop" | "returned" | "panicked"
    method,    \* which Method was passed to LinearSolve
    m,         \* the method's private state
    a,         \* MatrixOps: which callbacks are non-nil
    b,         \* right-hand side: [dim, norm]
    given,     \* the caller's arguments: [dim, Tolerance, MaxIterations, Restart]
    settings,  \* LinearSolve's copy of Settings, after defaultSettings
    ctx,       \* Context
    stats,     \* Stats
    result,    \* what LinearSolve returned: [X, Stats, err]
    panicMsg,  \* the panic that ended the call, "none" otherwise
    calls,     \* number of invocations of each callback and method entry, and
               \* of preconditioner and EndIteration requests the method made
    lastOp,    \* the Operation the latest method.Iterate requested, if it did
    lastCheck, \* the latest CheckResidualNorm: [done, norm, converged], and
               \* normAx, the value of NormA*|ctx.X| at that moment
    twin,      \* the same solve run with PSolve = copy(dst, src)
    post       \* outcome of an Iterate call made after LinearSolve returned

vars == <<pc, method, m, a, b, given, settings, ctx, stats, result, panicMsg, calls,
          lastOp, lastCheck, twin, post>>

\* --------------------------------------------------------------- method state
\* resume, first: every method; omegaSmall: BiCGSTAB (|omega| < eps^2 for the
\* omega computed at label 6); i, Restart: GMRES.  rho and rhoPrev (CG) hold
\* the number of the rho computation whose value they carry, 0 for none; hSub
\* (GMRES) is the offset in h that the latest inner step stored |w| at, -1 for
\* none.
\* rhoSign (BiCG, BiCGSTAB) is where the latest rho lies, "none" before the
\* first; added (BiCGSTAB) counts the additions of alpha*phat to ctx.X since
\* the iteration began; ldv (GMRES) is the dimension Init was called with.
NoMethod == [resume |-> 0, first |-> FALSE, omegaSmall |-> FALSE, i |-> 0, Restart |-> 0,
             rho |-> 0, rhoPrev |-> 0, hSub |-> -1,
             rhoSign |-> "none", added |-> 0, ldv |-> 0]

\* What one call of Iterate yields: the new method state and context, the
\* requested operation, the returned error and a panic, if any.
Yield(ms, c, op) == [m |-> ms, ctx |-> c, op |-> op, err |-> "nil", panic |-> "none"]
Fail(ms, c, e) == [m |-> ms, ctx |-> c, op |-> "NoOperation", err |-> e, panic |-> "none"]
Panic(ms, c, msg) == [m |-> ms, ctx |-> c, op |-> "NoOperation", err |-> "nil", panic |-> msg]

\* Outcomes of the floating-point computations inside one Iterate call.
\* rho is below -eps^2 ("neg"), within eps^2 of zero ("tiny") or above ("pos").
RhoSigns == {"neg", "tiny", "pos"}
Numerics == [norm : Norms, rho : RhoSigns, omegaBreak : BOOLEAN]

\* CheckResidual is the name cg.go and GMRES use for the convergence-check
\* request; the driver of solve.go has one such request, CheckResidualNorm.
CheckResidual == "CheckResidualNorm"

\* ------------------------------------------------------------------------ CG
\* Init, the mutation: the resume label starts one request too far.
CGInitSkips(ms) == [ms EXCEPT !.first = TRUE, !.resume = 2]

CGInit(ms) == [ms EXCEPT !.first = TRUE, !.resume = 1]

CGIterate(ms, c, n, num) ==
    CASE ms.resume = 1 ->
           Yield([ms EXCEPT !.resume = 2], [c EXCEPT !.Src = "r", !.Dst = "z"], "PSolve")
      [] ms.resume = 2 ->
           Yield([ms EXCEPT !.resume = 3, !.rho = @ + 1],
                 [c EXCEPT !.Src = "p", !.Dst = "Ap"], "MatVec")
      [] ms.resume = 3 ->
           Yield([ms EXCEPT !.resume = 4],
                 [c EXCEPT !.X = @ + 1, !.Residual = num.norm,
                           !.Src = "nil", !.Dst = "nil", !.Converged = FALSE, !.Cleared = @ + 1],
                 CheckResidual)
      [] ms.resume = 4 ->
           IF c.Converged
             THEN Yield([ms EXCEPT !.resume = 0], c, "EndIteration")
             ELSE Yield([ms EXCEPT !.rhoPrev = ms.rho, !.first = FALSE, !.resume = 1],
                        c, "EndIteration")
      [] OTHER -> Panic(ms, c, "iterative: CG.Init not called")

\* ---------------------------------------------------------------------- BiCG
\* Init, the mutation: the resume label starts one request too far.
BiCGInitSkips(ms) == [ms EXCEPT !.first = TRUE, !.resume = 2]

BiCGInit(ms) == [ms EXCEPT !.first = TRUE, !.resume = 1]

\* math.Abs(b.rho) < dlamchE*dlamchE
BiCGRhoBreaks(rho) == rho = "tiny"

\* Label 6, the mutation: the converged branch leaves the resume label at the
\* start of the next iteration.
BiCGEndKeepsLabel(ms, c) ==
    IF c.Converged
      THEN Yield([ms EXCEPT !.resume = 1], c, "EndIteration")
      ELSE Yield([ms EXCEPT !.first = FALSE, !.resume = 1], c, "EndIteration")

\* Label 6, the mutation: the method clears ctx.Converged when it ends the
\* iteration.
BiCGEndClears(ms, c) ==
    IF c.Converged
      THEN Yield([ms EXCEPT !.resume = 0], [c EXCEPT !.Converged = FALSE], "EndIteration")
      ELSE Yield([ms EXCEPT !.first = FALSE, !.resume = 1], c, "EndIteration")

\* Label 6: EndIteration, with the resume label cleared on convergence.
BiCGEnd(ms, c) ==
    IF c.Converged
      THEN Yield([ms EXCEPT !.resume = 0], c, "EndIteration")
      ELSE Yield([ms EXCEPT !.first = FALSE, !.resume = 1], c, "EndIteration")

BiCGIterate(ms, c, n, num) ==
    CASE ms.resume = 1 ->
           Yield([ms EXCEPT !.resume = 2],
                 [c EXCEPT !.Src = "Residual", !.Dst = "z"], "PSolve")
      [] ms.resume = 2 ->
           Yield([ms EXCEPT !.resume = 3],
                 [c EXCEPT !.Src = "rt", !.Dst = "zt"], "PSolveTrans")
      [] ms.resume = 3 ->
           IF BiCGRhoBreaks(num.rho)
             THEN Fail([ms EXCEPT !.resume = 0, !.rhoSign = num.rho], c,
                       "iterative: rho breakdown")
             ELSE Yield([ms EXCEPT !.resume = 4, !.rhoSign = num.rho],
                        [c EXCEPT !.Src = "p", !.Dst = "z"], "MatVec")
      [] ms.resume = 4 ->
           Yield([ms EXCEPT !.resume = 5],
                 [c EXCEPT !.Src = "pt", !.Dst = "zt"], "MatTransVec")
      [] ms.resume = 5 ->
           Yield([ms EXCEPT !.resume = 6],
                 [c EXCEPT !.X = @ + 1, !.Residual = num.norm, !.ResidualNorm = num.norm,
                           !.Src = "nil", !.Dst = "nil", !.Converged = FALSE, !.Cleared = @ + 1],
                 "CheckResidualNorm")
      [] ms.resume = 6 -> BiCGEnd(ms, c)
      [] OTHER -> Panic(ms, c, "iterative: BiCG.Init not called")

\* ------------------------------------------------------------------ BiCGSTAB
\* Init, the mutation: the resume label starts one request too far.
BiCGSTABInitSkips(ms) == [ms EXCEPT !.first = TRUE, !.resume = 2]

BiCGSTABInit(ms) == [ms EXCEPT !.first = TRUE, !.resume = 1]

\* The rho test, the mutation: the absolute value is compared, as in BiCG.
BiCGSTABRhoBreaksAbs(rho) == rho = "tiny"

\* b.rho < dlamchE*dlamchE, a signed comparison
BiCGSTABRhoBreaks(rho) == rho \in {"neg", "tiny"}

\* Label 4, the mutation: early convergence leaves x without alpha*phat.
BiCGSTABEarlyNoUpdate(ms, c) ==
    IF c.Converged
      THEN Yield([ms EXCEPT !.resume = 0], c, "EndIteration")
      ELSE Yield([ms EXCEPT !.resume = 5],
                 [c EXCEPT !.Src = "Residual", !.Dst = "shat"], "PSolve")

\* Label 4: after the early check.
BiCGSTABEarly(ms, c) ==
    IF c.Converged
      THEN Yield([ms EXCEPT !.resume = 0, !.added = @ + 1], [c EXCEPT !.X = @ + 1],
                 "EndIteration")
      ELSE Yield([ms EXCEPT !.resume = 5],
                 [c EXCEPT !.Src = "Residual", !.Dst = "shat"], "PSolve")

\* Label 7, the mutation: omega is tested before ctx.Converged.
BiCGSTABEndOmegaFirst(ms, c) ==
    IF ms.omegaSmall
      THEN Fail(ms, c, "iterative: omega breakdown")
      ELSE IF c.Converged
        THEN Yield([ms EXCEPT !.resume = 0], c, "EndIteration")
        ELSE Yield([ms EXCEPT !.rhoPrev = ms.rho, !.first = FALSE, !.resume = 1],
                   c, "EndIteration")

\* Label 7: after the second check.
BiCGSTABEnd(ms, c) ==
    IF c.Converged
      THEN Yield([ms EXCEPT !.resume = 0], c, "EndIteration")
      ELSE IF ms.omegaSmall
        THEN Fail(ms, c, "iterative: omega breakdown")
        ELSE Yield([ms EXCEPT !.rhoPrev = ms.rho, !.first = FALSE, !.resume = 1],
                   c, "EndIteration")

BiCGSTABIterate(ms, c, n, num) ==
    CASE ms.resume = 1 ->
           IF BiCGSTABRhoBreaks(num.rho)
             THEN Fail([ms EXCEPT !.resume = 0, !.rhoSign = num.rho, !.rho = @ + 1], c,
                       "iterative: rho breakdown")
             ELSE Yield([ms EXCEPT !.resume = 2, !.rhoSign = num.rho, !.rho = @ + 1,
                                   !.added = 0],
                        [c EXCEPT !.Src = "p", !.Dst = "phat"], "PSolve")
      [] ms.resume = 2 ->
           Yield([ms EXCEPT !.resume = 3],
                 [c EXCEPT !.Src = "phat", !.Dst = "v"], "MatVec")
      [] ms.resume = 3 ->
           Yield([ms EXCEPT !.resume = 4],
                 [c EXCEPT !.Residual = num.norm, !.ResidualNorm = num.norm,
                           !.Src = "nil", !.Dst = "nil", !.Converged = FALSE,
                           !.Cleared = @ + 1],
                 "CheckResidualNorm")
      [] ms.resume = 4 -> BiCGSTABEarly(ms, c)
      [] ms.resume = 5 ->
           Yield([ms EXCEPT !.resume = 6],
                 [c EXCEPT !.Src = "shat", !.Dst = "t"], "MatVec")
      [] ms.resume = 6 ->
           Yield([ms EXCEPT !.resume = 7, !.omegaSmall = num.omegaBreak, !.added = @ + 1],
                 [c EXCEPT !.X = @ + 2, !.Residual = num.norm, !.ResidualNorm = num.norm,
                           !.Src = "nil", !.Dst = "nil", !.Converged = FALSE,
                           !.Cleared = @ + 1],
                 "CheckResidualNorm")
      [] ms.resume = 7 -> BiCGSTABEnd(ms, c)
      [] OTHER -> Panic(ms, c, "iterative: BiCGSTAB.Init not called")

\* --------------------------------------------------------------------- GMRES
\* Lengths of the work arrays as Init sizes them for a fresh GMRES value.
LenS(dim) == dim
LenY(dim) == dim
LenV(dim, k) == dim * (k + 1)
LenH(k) == (k + 1) * k
LenGivs(k) == k

\* The Restart test of Init, the mutation: no upper limit.
GMRESInitPanicsLax(ms, dim) ==
    LET r == IF ms.Restart = 0 THEN dim ELSE ms.Restart
    IN  dim <= 0 \/ r <= 0

GMRESInitPanics(ms, dim) ==
    LET r == IF ms.Restart = 0 THEN dim ELSE ms.Restart
    IN  dim <= 0 \/ r <= 0 \/ dim < r

GMRESInit(ms, dim) ==
    [ms EXCEPT !.Restart = IF @ = 0 THEN dim ELSE @, !.ldv = dim, !.resume = 1]

\* update(x): y = g.y[:i+1], copy from g.s[:i+1], a triangular solve of order
\* i+1 on h with leading dimension Restart+1 (its last diagonal entry is
\* h[i*(Restart+1)+i]), then x += y[j]*V[:,j] for j <= i.
updatePanics(ms, n) ==
    \/ ms.i + 1 > LenY(n)
    \/ ms.i + 1 > LenS(n)
    \/ ms.i * (ms.Restart + 1) + ms.i >= LenH(ms.Restart)
    \/ (ms.i + 1) * n > LenV(n, ms.Restart)

\* h[i+1] = wnorm: the offset in h that inner step i stores |w| at.
SubDiagonalOffset(i) == i + 1

\* Label 3, the mutation: the product is requested in place.
GMRESInnerInPlace(ms, c, n, num) ==
    IF ms.i = ms.Restart
      THEN Yield([ms EXCEPT !.resume = 7],
                 [c EXCEPT !.Src = "nil", !.Dst = "nil"], "NoOperation")
      ELSE Yield([ms EXCEPT !.resume = 4],
                 [c EXCEPT !.Src = "v", !.Dst = "v"], "MatVec")

\* Labels 3..: label 2 falls through to label 3 after setting i = 0.
GMRESInner(ms, c, n, num) ==
    IF ms.i = ms.Restart
      THEN Yield([ms EXCEPT !.resume = 7],
                 [c EXCEPT !.Src = "nil", !.Dst = "nil"], "NoOperation")
      ELSE Yield([ms EXCEPT !.resume = 4],
                 [c EXCEPT !.Src = "v", !.Dst = "av"], "MatVec")

GMRESIterate(ms, c, n, num) ==
    CASE ms.resume = 1 ->
           Yield([ms EXCEPT !.resume = 2],
                 [c EXCEPT !.Src = "Residual", !.Dst = "v"], "PSolve")
      [] ms.resume = 2 -> GMRESInner([ms EXCEPT !.i = 0], c, n, num)
      [] ms.resume = 3 -> GMRESInner(ms, c, n, num)
      [] ms.resume = 4 ->
           Yield([ms EXCEPT !.resume = 5],
                 [c EXCEPT !.Src = "av", !.Dst = "w"], "PSolve")
      [] ms.resume = 5 ->
           IF \/ (ms.i + 1) * (ms.Restart + 1) > LenH(ms.Restart)
              \/ SubDiagonalOffset(ms.i) >= LenH(ms.Restart)
             THEN Panic(ms, c, "runtime error: index out of range")
           ELSE IF \/ (ms.i + 2) * n > LenV(n, ms.Restart)
                   \/ ms.i >= LenGivs(ms.Restart)
                   \/ ms.i + 1 >= LenS(n)
             THEN Panic([ms EXCEPT !.hSub = SubDiagonalOffset(ms.i)], c,
                        "runtime error: index out of range")
             ELSE Yield([ms EXCEPT !.resume = 6, !.hSub = SubDiagonalOffset(ms.i)],
                        [c EXCEPT !.ResidualNorm = num.norm,
                                  !.Src = "nil", !.Dst = "nil", !.Converged = FALSE, !.Cleared = @ + 1],
                        "CheckResidualNorm")
      [] ms.resume = 6 ->
           IF c.Converged
             THEN IF updatePanics(ms, n)
                    THEN Panic(ms, c, "runtime error: index out of range")
                    ELSE Yield([ms EXCEPT !.resume = 0], [c EXCEPT !.X = @ + 1],
                               "EndIteration")
             ELSE Yield([ms EXCEPT !.i = @ + 1, !.resume = 3], c, "NoOperation")
      [] ms.resume = 7 ->
           IF updatePanics(ms, n)
             THEN Panic(ms, c, "runtime error: index out of range")
             ELSE Yield([ms EXCEPT !.resume = 8], [c EXCEPT !.X = @ + 1],
                        "ComputeResidual")
      [] ms.resume = 8 ->
           Yield([ms EXCEPT !.resume = 9], [c EXCEPT !.Converged = FALSE, !.Cleared = @ + 1], CheckResidual)
      [] ms.resume = 9 ->
           IF c.Converged
             THEN Yield([ms EXCEPT !.resume = 0], c, "EndIteration")
             ELSE Yield([ms EXCEPT !.resume = 1], c, "EndIteration")
      [] OTHER -> Panic(ms, c, "iterative: GMRES.Init not called")

\* ------------------------------------------------------- the Method interface
MethodInitPanics(kind, ms, dim) ==
    CASE kind = "GMRES" -> GMRESInitPanics(ms, dim)
      [] kind \in {"BiCG", "BiCGSTAB"} -> dim <= 0
      [] OTHER -> FALSE

MethodInit(kind, ms, dim) ==
    CASE kind = "CG" -> CGInit(ms)
      [] kind = "BiCG" -> BiCGInit(ms)
      [] kind = "BiCGSTAB" -> BiCGSTABInit(ms)
      [] OTHER -> GMRESInit(ms, dim)

MethodIterate(kind, ms, c, n, num) ==
    CASE kind = "CG" -> CGIterate(ms, c, n, num)
      [] kind = "BiCG" -> BiCGIterate(ms, c, n, num)
      [] kind = "BiCGSTAB" -> BiCGSTABIterate(ms, c, n, num)
      [] OTHER -> GMRESIterate(ms, c, n, num)

\* -------------------------------------------------------------------- driver
NoStats == [Iterations |-> 0, MatVec |-> 0, PSolve |-> 0, ResidualNorm |-> 0]
\* Cleared counts the assignments ctx.Converged = false made by the method.
NoCtx == [X |-> 0, Residual |-> 0, ResidualNorm |-> 0, Converged |-> FALSE,
          Src |-> "nil", Dst |-> "nil", Cleared |-> 0]
NoResult == [X |-> 0, Stats |-> NoStats, err |-> "none"]
NoCalls == [MatVec |-> 0, MatTransVec |-> 0, PSolve |-> 0, PSolveTrans |-> 0,
            Init |-> 0, Iterate |-> 0, PRequests |-> 0, EndIterations |-> 0,
            Since |-> 0]
NoCheck == [done |-> FALSE, norm |-> 0, converged |-> FALSE, normAx |-> 0]
NoGiven == [dim |-> 0, Tolerance |-> 0, MaxIterations |-> 0, Restart |-> 0]
NoTwin == [state |-> "off", PSolve |-> 0]

Init ==
    /\ pc = "idle"
    /\ method = "none"
    /\ m = NoMethod
    /\ a = [MatVec |-> FALSE, MatTransVec |-> FALSE]
    /\ b = [dim |-> 0, norm |-> 0]
    /\ given = NoGiven
    /\ settings = [X0 |-> "nil", Tolerance |-> 0, NormA |-> 0, MaxIterations |-> 0,
                   PSolve |-> FALSE, PSolveTrans |-> FALSE]
    /\ ctx = NoCtx
    /\ stats = NoStats
    /\ result = NoResult
    /\ panicMsg = "none"
    /\ calls = NoCalls
    /\ lastOp = "none"
    /\ lastCheck = NoCheck
    /\ twin = NoTwin
    /\ post = "none"

\* defaultSettings, the mutation: the default tolerance of the earlier driver.
defaultSettingsOld(s, dim) ==
    [s EXCEPT !.Tolerance = IF @ = 0 THEN OldDefaultTolerance ELSE @,
              !.MaxIterations = IF @ = 0 THEN 2 * dim ELSE @]

defaultSettings(s, dim) ==
    [s EXCEPT !.Tolerance = IF @ = 0 THEN DefaultTolerance ELSE @,
              !.MaxIterations = IF @ = 0 THEN 2 * dim ELSE @]

\* bnorm, the mutation: max(|b|, 1).
bnormMax == IF b.norm < Scale THEN Scale ELSE b.norm

\* bnorm of iterate: |b|, or 1 when |b| = 0.
bnorm == IF b.norm = 0 THEN Scale ELSE b.norm

\* The stopping criterion, the mutation: <= in place of <.
CriterionLeq(rnorm, bn, tol) == rnorm * Scale <= tol * bn

\* The stopping criterion of CheckResidualNorm: ResidualNorm/bnorm < Tolerance.
Criterion(rnorm, bn, tol) == rnorm * Scale < tol * bn

\* The entry test, the mutation: iterate unless the residual is exactly zero.
NeedsIterateNonzero(rnorm, tol) == rnorm > 0

\* The test of LinearSolve that enters iterate.
NeedsIterate(rnorm, tol) == rnorm >= tol

\* The limit test, the mutation: off by one.
LimitReachedLate(st, s) == st.Iterations = s.MaxIterations + 1

\* The test of EndIteration that stops at the iteration limit.
LimitReached(st, s) == st.Iterations = s.MaxIterations

\* The tolerance test, the mutation: Tolerance = 1 passes.
ValidToleranceInclusive(tol) == ~(tol < dlamchE \/ Scale < tol)

\* The tolerance LinearSolve does not panic on.
ValidTolerance(tol) == ~(tol < dlamchE \/ Scale <= tol)

\* The initial product, the mutation: A*X0 is not counted.
InitialMatVecUncounted(x0) == 0

\* stats.MatVec after the initial residual: A*X0 is computed when X0 is given.
InitialMatVec(x0) == IF x0 = "nil" THEN 0 ELSE 1

\* stats.MatVec++, the mutation: only ComputeResidual is counted.
MatVecCountResidualOnly(n, op) == IF op = "ComputeResidual" THEN n + 1 ELSE n

\* stats.MatVec++ of case ComputeResidual and of case MatVec, MatTransVec.
MatVecCount(n, op) == n + 1

\* The return for dim = 0, the mutation: an error in place of nil.
EmptySolveFails(st) == [X |-> 0, Stats |-> st, err |-> "iterative: zero dimension"]

\* return Result{Stats: stats}, nil
EmptySolve(st) == [X |-> 0, Stats |-> st, err |-> "nil"]

\* LinearSolve's return, the mutation: the Stats are dropped.
ReturnNoStats(st, e) == [X |-> ctx'.X, Stats |-> NoStats, err |-> e]

\* LinearSolve's return statement.
Return(st, e) == [X |-> ctx'.X, Stats |-> st, err |-> e]

\* A panic leaves LinearSolve without a Result.
Panics(msg) ==
    /\ pc' = "panicked"
    /\ panicMsg' = msg
    /\ result' = result

Continue ==
    /\ pc' = "loop"
    /\ result' = result
    /\ panicMsg' = panicMsg

Returns(st, e) ==
    /\ pc' = "returned"
    /\ result' = Return(st, e)
    /\ panicMsg' = panicMsg

\* LinearSolve up to the first call of method.Iterate: validation, defaults,
\* the initial residual, and iterate's prologue (bnorm, method.Init).
LinearSolve ==
    /\ pc = "idle"
    /\ \E kind \in Methods, restart \in Restarts, dim \in 0..MaxDim, bn \in BNorms,
          matvec \in BOOLEAN, mattrans \in BOOLEAN,
          x0 \in {"nil", "ok", "badlen"}, r0 \in Norms,
          tol \in Tolerances, norma \in NormAs, maxit \in 0..MaxIt,
          psolve \in BOOLEAN, psolvetrans \in BOOLEAN :
        LET s0 == [X0 |-> x0, Tolerance |-> tol, NormA |-> norma,
                   MaxIterations |-> maxit,
                   PSolve |-> psolve, PSolveTrans |-> psolvetrans]
            s1 == defaultSettings(s0, dim)
            m0 == [NoMethod EXCEPT !.Restart = restart]
            rnorm == IF x0 = "nil" THEN bn ELSE r0
            valid == matvec /\ x0 # "badlen"
            tolOk == ValidTolerance(s1.Tolerance)
            started == valid /\ dim > 0 /\ tolOk
            enters == started /\ NeedsIterate(rnorm, s1.Tolerance)
        IN
        /\ (dim = 0 => bn = 0)
        /\ (x0 = "nil" => r0 = 0)
        /\ (kind # "GMRES" => restart = 0)
        /\ given' = [dim |-> dim, Tolerance |-> tol, MaxIterations |-> maxit,
                     Restart |-> restart]
        /\ IF ~matvec
             THEN /\ Panics("iterative: nil matrix-vector multiplication")
                  /\ UNCHANGED <<method, m, a, b, settings, ctx, stats, calls, twin>>
           ELSE IF x0 = "badlen"
             THEN /\ Panics("iterative: mismatched length of initial guess")
                  /\ UNCHANGED <<method, m, a, b, settings, ctx, stats, calls, twin>>
           ELSE IF dim = 0
             THEN /\ pc' = "returned"
                  /\ result' = EmptySolve(NoStats)
                  /\ panicMsg' = panicMsg
                  /\ UNCHANGED <<method, m, a, b, settings, ctx, stats, calls, twin>>
           ELSE IF ~tolOk
             THEN /\ Panics("iterative: invalid tolerance")
                  /\ settings' = [settings EXCEPT !.Tolerance = s1.Tolerance]
                  /\ UNCHANGED <<method, m, a, b, ctx, stats, calls, twin>>
           ELSE /\ method' = kind
                /\ a' = [MatVec |-> matvec, MatTransVec |-> mattrans]
                /\ b' = [dim |-> dim, norm |-> bn]
                /\ settings' = s1
                /\ ctx' = [NoCtx EXCEPT !.Residual = rnorm, !.ResidualNorm = rnorm]
                /\ stats' = [NoStats EXCEPT !.MatVec = InitialMatVec(x0)]
                /\ calls' = [NoCalls EXCEPT !.MatVec = IF x0 = "ok" THEN 1 ELSE 0,
                                            !.Init = IF enters THEN 1 ELSE 0]
                /\ m' = IF enters /\ ~MethodInitPanics(kind, m0, dim)
                          THEN MethodInit(kind, m0, dim) ELSE m0
                /\ twin' = IF enters /\ ~psolve
                             THEN [state |-> "running", PSolve |-> 0] ELSE NoTwin
                /\ IF ~enters
                     THEN Returns(stats', "nil")
                   ELSE IF MethodInitPanics(kind, m0, dim)
                     THEN Panics("iterative: invalid GMRES.Restart")
                   ELSE Continue
    /\ UNCHANGED <<lastOp, lastCheck, post>>

\* In the first iteration BiCGSTAB has rt = r, and BiCG without a preconditioner
\* has z = rt = r, so rho = |r|^2 with |r| >= Tolerance >= eps: no breakdown.
RhoCanBreak ==
    ~(m.first /\ (method = "BiCGSTAB" \/ (method = "BiCG" /\ ~settings.PSolve)))

\* The labels at which Iterate computes a norm, rho and omega.
UsesNorm ==
    \/ method = "CG" /\ m.resume = 3
    \/ method = "BiCG" /\ m.resume = 5
    \/ method = "BiCGSTAB" /\ m.resume \in {3, 6}
    \/ method = "GMRES" /\ m.resume = 5
UsesRho ==
    \/ method = "BiCG" /\ m.resume = 3
    \/ method = "BiCGSTAB" /\ m.resume = 1
UsesOmega == method = "BiCGSTAB" /\ m.resume = 6

NumericsFor ==
    [norm : IF UsesNorm THEN Norms ELSE {0},
     rho : IF UsesRho /\ RhoCanBreak THEN RhoSigns ELSE {"pos"},
     omegaBreak : IF UsesOmega THEN BOOLEAN ELSE {FALSE}]

\* op, err := method.Iterate(ctx)
Call(num) == MethodIterate(method, m, ctx, b.dim, num)

\* What every pass of the loop does before the switch.
Called(y) ==
    /\ m' = y.m
    /\ lastOp' = y.op

\* method.Iterate panics.
StepPanic ==
    /\ pc = "loop"
    /\ \E num \in NumericsFor :
        LET y == Call(num) IN
        /\ y.panic # "none"
        /\ m' = y.m
        /\ lastOp' = "none"
        /\ ctx' = y.ctx
        /\ calls' = [calls EXCEPT !.Iterate = @ + 1, !.Since = @ + 1]
        /\ Panics(y.panic)
    /\ UNCHANGED <<method, a, b, given, settings, stats, lastCheck, twin, post>>

\* if err != nil { return err }
StepError ==
    /\ pc = "loop"
    /\ \E num \in NumericsFor :
        LET y == Call(num) IN
        /\ y.panic = "none" /\ y.err # "nil"
        /\ m' = y.m
        /\ lastOp' = "none"
        /\ ctx' = y.ctx
        /\ calls' = [calls EXCEPT !.Iterate = @ + 1, !.Since = @ + 1]
        /\ Returns(stats, y.err)
    /\ UNCHANGED <<method, a, b, given, settings, stats, lastCheck, twin, post>>

Requested(y, ops) == y.panic = "none" /\ y.err = "nil" /\ y.op \in ops

StepNoOperation ==
    /\ pc = "loop"
    /\ \E num \in NumericsFor :
        LET y == Call(num) IN
        /\ Requested(y, {"NoOperation"})
        /\ Called(y)
        /\ ctx' = y.ctx
        /\ calls' = [calls EXCEPT !.Iterate = @ + 1, !.Since = @ + 1]
        /\ Continue
    /\ UNCHANGED <<method, a, b, given, settings, stats, lastCheck, twin, post>>

\* case ComputeResidual and case MatVec, MatTransVec: which callback the
\* driver invokes, "nil" when it invokes a nil function value.
MatVecCallee(ops, op) ==
    IF op \in {"ComputeResidual", "MatVec"} THEN "MatVec"
    ELSE IF ops.MatTransVec THEN "MatTransVec" ELSE "nil"

\* The three requests served by an operator product: ComputeResidual
\* (ctx.Residual = b - A*ctx.X), MatVec and MatTransVec (ctx.Dst from ctx.Src).
StepOperator ==
    /\ pc = "loop"
    /\ \E num \in NumericsFor, rn \in Norms :
        LET y == Call(num)
            callee == MatVecCallee(a, y.op)
        IN
        /\ Requested(y, {"ComputeResidual", "MatVec", "MatTransVec"})
        /\ (y.op # "ComputeResidual" => rn = 0)
        /\ Called(y)
        /\ ctx' = IF y.op = "ComputeResidual" THEN [y.ctx EXCEPT !.Residual = rn] ELSE y.ctx
        /\ IF callee = "nil"
             THEN /\ Panics("runtime error: invalid memory address or nil pointer dereference")
                  /\ calls' = [calls EXCEPT !.Iterate = @ + 1, !.Since = @ + 1]
                  /\ stats' = stats
             ELSE /\ Continue
                  /\ calls' = [calls EXCEPT !.Iterate = @ + 1, !.Since = @ + 1, ![callee] = @ + 1]
                  /\ stats' = [stats EXCEPT !.MatVec = MatVecCount(@, y.op)]
    /\ UNCHANGED <<method, a, b, given, settings, lastCheck, twin, post>>

\* case PSolve, PSolveTrans: "copy" (no callback), "nil" (a nil function value
\* is invoked) or the callback that is invoked.
PSolveCallee(s, op) ==
    IF ~s.PSolve THEN "copy"
    ELSE IF op = "PSolve" THEN "PSolve"
    ELSE IF s.PSolveTrans THEN "PSolveTrans" ELSE "nil"

\* stats.PSolve, the mutation: counted before the error is looked at.
PSolveCountEarly(n, callee, failed) ==
    IF callee \in {"PSolve", "PSolveTrans"} THEN n + 1 ELSE n

\* stats.PSolve after the case, given the callee and whether it failed.
PSolveCount(n, callee, failed) ==
    IF callee \in {"PSolve", "PSolveTrans"} /\ ~failed THEN n + 1 ELSE n

\* The same request in the solve whose PSolve is copy(dst, src): it stays in
\* step while its callbacks return what the copy returns.
TwinStep(t, op) ==
    LET callee == PSolveCallee([settings EXCEPT !.PSolve = TRUE], op) IN
    IF t.state # "running" THEN t
    ELSE IF callee = "nil" THEN [t EXCEPT !.state = "panicked"]
    ELSE IF callee = "PSolveTrans" THEN [t EXCEPT !.state = "diverged"]
    ELSE [t EXCEPT !.PSolve = PSolveCount(@, callee, FALSE)]

StepPSolve ==
    /\ pc = "loop"
    /\ \E num \in NumericsFor, failed \in BOOLEAN :
        LET y == Call(num)
            callee == PSolveCallee(settings, y.op)
        IN
        /\ Requested(y, {"PSolve", "PSolveTrans"})
        /\ (failed => callee \in {"PSolve", "PSolveTrans"})
        /\ Called(y)
        /\ ctx' = y.ctx
        /\ twin' = TwinStep(twin, y.op)
        /\ stats' = [stats EXCEPT !.PSolve = PSolveCount(@, callee, failed)]
        /\ IF callee = "nil"
             THEN /\ Panics("runtime error: invalid memory address or nil pointer dereference")
                  /\ calls' = [calls EXCEPT !.Iterate = @ + 1, !.Since = @ + 1, !.PRequests = @ + 1]
           ELSE IF callee = "copy"
             THEN /\ Continue
                  /\ calls' = [calls EXCEPT !.Iterate = @ + 1, !.Since = @ + 1, !.PRequests = @ + 1]
           ELSE /\ calls' = [calls EXCEPT !.Iterate = @ + 1, !.Since = @ + 1, !.PRequests = @ + 1,
                                          ![callee] = @ + 1]
                /\ IF failed THEN Returns(stats', "preconditioner error") ELSE Continue
    /\ UNCHANGED <<method, a, b, given, settings, lastCheck, post>>

StepCheckResidualNorm ==
    /\ pc = "loop"
    /\ \E num \in NumericsFor, xnorm \in XNorms :
        LET y == Call(num)
            conv == Criterion(y.ctx.ResidualNorm, bnorm, settings.Tolerance)
        IN
        /\ Requested(y, {"CheckResidualNorm"})
        /\ (settings.NormA = 0 => xnorm = 0)
        /\ Called(y)
        /\ ctx' = [y.ctx EXCEPT !.Converged = conv]
        /\ lastCheck' = [done |-> TRUE, norm |-> y.ctx.ResidualNorm, converged |-> conv,
                         normAx |-> (settings.NormA * xnorm) \div Scale]
        /\ calls' = [calls EXCEPT !.Iterate = @ + 1, !.Since = @ + 1]
        /\ Continue
    /\ UNCHANGED <<method, a, b, given, settings, stats, twin, post>>

\* stats after stats.Iterations++ and stats.ResidualNorm = ctx.ResidualNorm.
EndIterationStats(st, c) ==
    [st EXCEPT !.Iterations = @ + 1, !.ResidualNorm = c.ResidualNorm]

\* EndIteration, the mutation: the limit is tested before ctx.Converged.
EndIterationLimitFirst(st, c, s) ==
    IF LimitReached(st, s) THEN "iterative: iteration limit reached"
    ELSE IF c.Converged THEN "nil"
    ELSE "continue"

\* What EndIteration decides: "nil", the limit error, or "continue".
EndIterationVerdict(st, c, s) ==
    IF c.Converged THEN "nil"
    ELSE IF LimitReached(st, s) THEN "iterative: iteration limit reached"
    ELSE "continue"

StepEndIteration ==
    /\ pc = "loop"
    /\ \E num \in NumericsFor :
        LET y == Call(num)
            st == EndIterationStats(stats, y.ctx)
            verdict == EndIterationVerdict(st, y.ctx, settings)
        IN
        /\ Requested(y, {"EndIteration"})
        /\ Called(y)
        /\ ctx' = y.ctx
        /\ stats' = st
        /\ calls' = [calls EXCEPT !.Iterate = @ + 1, !.EndIterations = @ + 1, !.Since = 0]
        /\ IF verdict = "continue" THEN Continue ELSE Returns(st, verdict)
    /\ UNCHANGED <<method, a, b, given, settings, lastCheck, twin, post>>

\* The caller, who owns the method value, calls Iterate once more after
\* LinearSolve has returned, without calling Init.
PostIterate ==
    /\ pc = "returned"
    /\ calls.Init > 0
    /\ \E num \in NumericsFor :
        LET y == Call(num) IN
        /\ m' = y.m
        /\ ctx' = y.ctx
        /\ post' = IF y.panic # "none" THEN "panicked"
                   ELSE IF y.err # "nil" THEN "error"
                   ELSE y.op
    /\ pc' = "post"
    /\ UNCHANGED <<method, a, b, given, settings, stats, result, panicMsg, calls, lastOp,
                   lastCheck, twin>>

\* The caller passes the same method value to a second LinearSolve, for a
\* system of dimension dim: iterate begins with method.Init(dim).
Reuse ==
    /\ pc = "returned"
    /\ calls.Init > 0
    /\ \E dim \in 1..MaxDim :
        IF MethodInitPanics(method, m, dim)
          THEN m' = m /\ post' = "init panicked"
          ELSE m' = MethodInit(method, m, dim) /\ post' = "init"
    /\ pc' = "reinit"
    /\ UNCHANGED <<method, a, b, given, settings, ctx, stats, result, panicMsg, calls,
                   lastOp, lastCheck, twin>>

Next ==
    \/ LinearSolve
    \/ StepPanic
    \/ StepError
    \/ StepNoOperation
    \/ StepOperator
    \/ StepPSolve
    \/ StepCheckResidualNorm
    \/ StepEndIteration
    \/ PostIterate
    \/ Reuse

Spec == Init /\ [][Next]_vars

\* ==================================================================== claims
Max(x, y) == IF x >= y THEN x ELSE y

LimitError == "iterative: iteration limit reached"
PSolveError == "preconditioner error"
NilCall == "runtime error: invalid memory address or nil pointer dereference"

\* LinearSolve got past validation: the arguments are in the state.
Started == method # "none"
\* LinearSolve has returned a Result.
Returned == result.err # "none"
\* This step is one pass of the driver loop.
LoopPass == calls'.Iterate = calls.Iterate + 1

\* C1: the iteration counter never exceeds MaxIterations (the given positive
\* value, or 2*len(b) when left at 0), in the loop and in the returned Stats.
C1_IterationsBounded ==
    Started =>
        /\ settings.MaxIterations >= 1
        /\ settings.MaxIterations <= Max(MaxIt, 2 * b.dim)
        /\ stats.Iterations <= settings.MaxIterations
        /\ (Returned => result.Stats.Iterations <= settings.MaxIterations)

\* C1 witness: a solve with the defaulted limit 2*len(b) returns at the limit.
C1_Witness ==
    /\ pc = "returned"
    /\ result.err = LimitError
    /\ settings.MaxIterations = 2 * b.dim
    /\ settings.MaxIterations > MaxIt
    /\ result.Stats.Iterations = settings.MaxIterations

\* C2: servicing EndIteration increments Stats.Iterations, records
\* ctx.ResidualNorm, returns nil if ctx.Converged, and otherwise returns the
\* limit error exactly when Stats.Iterations = MaxIterations.
C2_EndIteration ==
    [][(LoopPass /\ lastOp' = "EndIteration" /\ pc' # "panicked") =>
         /\ stats'.Iterations = stats.Iterations + 1
         /\ stats'.ResidualNorm = ctx'.ResidualNorm
         /\ ctx'.Converged => (pc' = "returned" /\ result'.err = "nil")
         /\ ~ctx'.Converged =>
              IF stats'.Iterations = settings.MaxIterations
                THEN pc' = "returned" /\ result'.err = LimitError
                ELSE pc' = "loop" /\ result' = result
         /\ pc' = "returned" => (result'.Stats = stats' /\ result'.X = ctx'.X)
      ]_vars

\* C2 witness: MaxIterations = 1, the first iteration does not converge, and
\* the limit error comes back with Iterations = 1 and the norm recorded.
C2_Witness ==
    /\ pc = "returned"
    /\ settings.MaxIterations = 1
    /\ ~ctx.Converged
    /\ result.err = LimitError
    /\ result.Stats.Iterations = 1
    /\ result.Stats.ResidualNorm = ctx.ResidualNorm
    /\ result.Stats.ResidualNorm > 0
    /\ lastCheck.norm = result.Stats.ResidualNorm

\* C3: a nil error after the loop was entered means the recorded residual norm
\* passed the latest CheckResidualNorm and ResidualNorm/max(|b|,1) < Tolerance.
C3_SuccessMeetsTolerance ==
    (Returned /\ result.err = "nil" /\ calls.Init > 0) =>
        /\ lastCheck.done
        /\ lastCheck.converged
        /\ lastCheck.norm = result.Stats.ResidualNorm
        /\ result.Stats.ResidualNorm * Scale < settings.Tolerance * Max(b.norm, Scale)

\* C3 witness: a converged solve of a system with 0 < |b| < 1.
C3_Witness ==
    /\ pc = "returned"
    /\ result.err = "nil"
    /\ calls.Init > 0
    /\ 0 < b.norm /\ b.norm < Scale
    /\ result.Stats.Iterations > 1

\* C4: an initial residual norm below Tolerance makes LinearSolve return nil
\* with zero iterations and no call of Init or Iterate; with X0 given that is
\* after exactly one MatVec.
C4_ZeroIterations ==
    /\ calls.Init = 0 => calls.Iterate = 0
    /\ (Started /\ calls.Iterate = 0 /\ pc # "panicked"
          /\ ctx.ResidualNorm < settings.Tolerance) =>
        /\ pc = "returned"
        /\ result.err = "nil"
        /\ result.Stats.Iterations = 0
        /\ calls.Init = 0
        /\ calls.MatTransVec = 0 /\ calls.PSolve = 0 /\ calls.PSolveTrans = 0
        /\ calls.MatVec = (IF settings.X0 = "nil" THEN 0 ELSE 1)
        /\ result.Stats.MatVec = calls.MatVec

\* C4 witness: X0 is the exact solution of a system with b # 0.
C4_Witness ==
    /\ pc = "returned"
    /\ settings.X0 = "ok"
    /\ b.norm >= settings.Tolerance
    /\ ctx.ResidualNorm = 0
    /\ calls.MatVec = 1
    /\ calls.Init = 0

C6_IterateAfterEnd ==
    /\ [](/\ (Returned /\ result.err = "nil" /\ calls.Init > 0 /\ pc = "returned")
               => m.resume = 0
          /\ (pc = "post" /\ result.err = "nil") => post = "panicked"
          /\ (pc = "post" /\ result.err = LimitError)
               => post \in {"PSolve", "error"})
    /\ [][(pc = "loop" /\ lastOp = "EndIteration" /\ LoopPass) =>
            (pc' # "panicked" /\ m'.resume # 0 /\ lastOp' = "PSolve")
            \/ (pc' = "returned" /\ result'.err = "iterative: rho breakdown")]_vars

\* C6 witness: the caller's Iterate after a converged solve has panicked.
C6_Witness ==
    /\ pc = "post"
    /\ result.err = "nil"
    /\ post = "panicked"
    /\ m.resume = 0

\* C7: a MatTransVec request with no MatTransVec callback makes LinearSolve
\* return a MissingOperator error; the nil callback is not invoked.
C7_MissingOperatorError ==
    (lastOp = "MatTransVec" /\ ~a.MatTransVec) =>
        /\ pc # "panicked"
        /\ Returned /\ result.err = "MissingOperator"

\* C8: a PSolveTrans request copies src to dst exactly when
\* Settings.PSolveTrans is nil and otherwise invokes Settings.PSolveTrans,
\* whatever Settings.PSolve is.
C8_PSolveTransSymmetric ==
    [][(LoopPass /\ lastOp' = "PSolveTrans") =>
         IF settings.PSolveTrans
           THEN calls'.PSolveTrans = calls.PSolveTrans + 1
           ELSE /\ pc' = "loop"
                /\ calls'.PSolveTrans = calls.PSolveTrans
                /\ calls'.PSolve = calls.PSolve
      ]_vars

\* C9: the solve without PSolve and the same solve with PSolve = copy return
\* the same error, the same X and the same Stats counters.
C9_NilPSolveIsCopy ==
    (pc = "returned" /\ twin.state # "off") =>
        /\ twin.state = "running"
        /\ twin.PSolve = result.Stats.PSolve

\* C10 as claimed: CheckResidualNorm sets ctx.Converged to
\* ResidualNorm / max(|b|, 1) < Tolerance.
C10_CriterionMaxOne ==
    (pc = "loop" /\ lastOp = "CheckResidualNorm") =>
        ctx.Converged = (ctx.ResidualNorm * Scale < settings.Tolerance * Max(b.norm, Scale))

\* C10 amended: CheckResidualNorm sets ctx.Converged to
\* ResidualNorm / bnorm < Tolerance, where bnorm is |b|, or 1 when |b| = 0.
C10_CriterionBnorm ==
    (pc = "loop" /\ lastOp = "CheckResidualNorm") =>
        /\ lastCheck.done
        /\ lastCheck.norm = ctx.ResidualNorm
        /\ lastCheck.converged = ctx.Converged
        /\ ctx.Converged =
             (ctx.ResidualNorm * Scale
                < settings.Tolerance * (IF b.norm = 0 THEN Scale ELSE b.norm))

\* C10 witness: with 0 < |b| < 1 a residual norm below Tolerance*1 but not
\* below Tolerance*|b| is serviced as not converged.
C10_Witness ==
    /\ pc = "loop"
    /\ lastOp = "CheckResidualNorm"
    /\ 0 < b.norm /\ b.norm < Scale
    /\ ctx.ResidualNorm < settings.Tolerance
    /\ ~ctx.Converged

NilMatVec == "iterative: nil matrix-vector multiplication"
BadX0 == "iterative: mismatched length of initial guess"
InvalidTolerance == "iterative: invalid tolerance"
Breakdowns == {"iterative: rho breakdown", "iterative: omega breakdown"}
\* The state right after the driver serviced a CheckResidualNorm.
Checked == pc = "loop" /\ lastOp = "CheckResidualNorm"

\* C11: with NormA > 0 CheckResidualNorm tests
\* |r| < Tolerance * (NormA*|x| + |b|) on the current ctx.X; with NormA = 0 it
\* tests the criterion on |b| alone.
C11_NormACriterion ==
    Checked =>
        ctx.Converged =
          IF settings.NormA > 0
            THEN ctx.ResidualNorm * Scale
                   < settings.Tolerance * (lastCheck.normAx + b.norm)
            ELSE Criterion(ctx.ResidualNorm, bnorm, settings.Tolerance)

C13_MatVecAtLeastIterations ==
    /\ stats.MatVec - (IF Started /\ settings.X0 = "ok" THEN 1 ELSE 0) >= stats.Iterations
    /\ Returned => result.Stats.MatVec >= result.Stats.Iterations

\* C13 witness: two iterations with exactly one operator product each.
C13_Witness ==
    /\ pc = "returned"
    /\ settings.X0 = "nil"
    /\ result.Stats.Iterations = 2
    /\ result.Stats.MatVec = 2

\* C14: on return Stats.PSolve is the number of PSolve and PSolveTrans
\* requests the method made (a request whose callback failed aside), with or
\* without a preconditioner callback.
C14_PSolveCountsRequests ==
    (pc = "returned" /\ Started) =>
        result.Stats.PSolve
          = calls.PRequests - (IF result.err = PSolveError THEN 1 ELSE 0)

\* C15 as claimed: a Tolerance left at zero is replaced by 1e-8.
C15_DefaultToleranceOld ==
    (Started /\ given.Tolerance = 0) => settings.Tolerance = OldDefaultTolerance

\* C15 amended: a Tolerance left at zero is replaced by 1e-6, which the entry
\* test and every CheckResidualNorm then use.
C15_DefaultTolerance ==
    (Started /\ given.Tolerance = 0) =>
        /\ settings.Tolerance = DefaultTolerance
        /\ (calls.Iterate = 0 /\ pc # "post")
             => (calls.Init > 0 <=> ctx.ResidualNorm >= DefaultTolerance)
        /\ Checked
             => ctx.Converged = (ctx.ResidualNorm * Scale < DefaultTolerance * bnorm)

\* C15 witness: a check with the default tolerance passes a residual norm
\* that the tolerance 1e-8 would not pass.
C15_Witness ==
    /\ Checked
    /\ given.Tolerance = 0
    /\ ctx.Converged
    /\ ctx.ResidualNorm * Scale >= OldDefaultTolerance * bnorm

C17_ZeroDimension ==
    (pc # "idle" /\ given.dim = 0) =>
        \/ pc = "panicked" /\ panicMsg \in {NilMatVec, BadX0}
        \/ /\ pc = "returned"
           /\ result.err = "nil"
           /\ result.Stats.Iterations = 0
           /\ result.Stats.MatVec = 0
           /\ result.Stats.PSolve = 0
           /\ calls = NoCalls
           /\ ~Started

\* C17 witness: the empty system returns before the tolerance is looked at.
C17_Witness ==
    /\ pc = "returned"
    /\ given.dim = 0
    /\ given.Tolerance = Scale
    /\ result.err = "nil"

\* C18: an error from Iterate is returned as is, with the current ctx.X and
\* Stats, Stats.Iterations being the number of EndIteration requests served;
\* nothing is serviced afterwards.
C18_MethodErrorReturned ==
    /\ [](result.err \in Breakdowns =>
            /\ pc \in {"returned", "post", "reinit"}
            /\ lastOp = "none"
            /\ result.Stats = stats
            /\ pc = "returned" => result.X = ctx.X
            /\ result.Stats.Iterations = calls.EndIterations)
    /\ [][result.err \in Breakdowns => (calls' = calls /\ stats' = stats)]_vars
    /\ [][(LoopPass /\ lastOp' = "none" /\ pc' = "returned") =>
            /\ result'.err \in Breakdowns
            /\ stats' = stats
            /\ ctx'.X = ctx.X]_vars

\* C18 witness: rho breaks down in the second iteration.
C18_Witness ==
    /\ pc = "returned"
    /\ result.err = "iterative: rho breakdown"
    /\ result.Stats.Iterations = 1
    /\ calls.EndIterations = 1
    /\ result.Stats.MatVec >= 2

\* C19: CG on a system whose first step gives a zero residual (A = I, X0
\* absent, no preconditioner, default settings, |b| > 1) returns nil after
\* one iteration with the updated x.
C19_ScenarioS1 ==
    (/\ method = "CG" /\ settings.X0 = "nil" /\ ~settings.PSolve
     /\ given.Tolerance = 0 /\ given.MaxIterations = 0 /\ settings.NormA = 0
     /\ given.dim = MaxDim /\ b.norm > Scale
     /\ lastOp = "EndIteration" /\ calls.EndIterations = 1
     /\ ctx.Residual = 0) =>
        /\ pc = "returned"
        /\ result.err = "nil"
        /\ result.Stats.Iterations = 1
        /\ result.X = 1

\* C20: CG without a preconditioner that has reached the solution (zero
\* residual) within the iteration budget returns a nil error.
C20_CGConverges ==
    (/\ pc = "returned" /\ method = "CG" /\ ~settings.PSolve
     /\ settings.X0 = "nil" /\ calls.Init > 0
     /\ ctx.Residual = 0) =>
        result.err = "nil"

InvalidRestart == "iterative: invalid GMRES.Restart"
OutOfRange == "runtime error: index out of range"
\* This step is one pass of the loop that serviced a CheckResidualNorm.
CheckPass == LoopPass /\ lastOp' = "CheckResidualNorm"

\* C21 as claimed: no method ever assigns ctx.Converged.
C21_OnlyDriverWrites == ctx.Cleared = 0

\* C21 amended: the value of ctx.Converged changes only when the driver
\* services CheckResidualNorm, which sets it to the criterion; a method
\* assigns it only false, and only in the Iterate call that requests the check.
C21_ConvergedFrame ==
    [][/\ ctx'.Converged # ctx.Converged => CheckPass
       /\ CheckPass =>
            /\ ctx'.Converged
                 = Criterion(ctx'.ResidualNorm, bnorm, settings.Tolerance)
            /\ ctx'.Cleared = ctx.Cleared + 1
       /\ (~CheckPass /\ pc' # "post") => ctx'.Cleared = ctx.Cleared
       /\ (pc' = "post" /\ ctx'.Cleared # ctx.Cleared) => post' = "CheckResidualNorm"
      ]_vars

\* C21 witness: the second check of a solve finds convergence, after the
\* method cleared the flag twice.
C21_Witness ==
    /\ Checked
    /\ ctx.Converged
    /\ ctx.Cleared = 2

\* C22: whenever the driver has been asked for a product or a preconditioner
\* solve, ctx.Src and ctx.Dst are two different buffers of the method (or
\* ctx.Residual), and the column of V that GMRES passes lies within V.
C22_DistinctBuffers ==
    (pc # "post" /\ lastOp \in {"MatVec", "MatTransVec", "PSolve", "PSolveTrans"}) =>
        /\ ctx.Src # "nil"
        /\ ctx.Dst # "nil"
        /\ ctx.Src # ctx.Dst
        /\ (method = "GMRES" /\ lastOp = "MatVec")
             => (m.i + 1) * b.dim <= LenV(b.dim, m.Restart)

\* C22 witness: GMRES asks for the product of the second basis vector.
C22_Witness ==
    /\ pc = "loop"
    /\ method = "GMRES"
    /\ lastOp = "MatVec"
    /\ m.i = 1
    /\ ctx.Src = "v" /\ ctx.Dst = "av"

\* C23: after Restart inner steps without convergence GMRES forms x and
\* requests ComputeResidual, which the driver serves.
C23_RestartRecomputes ==
    [][(method = "GMRES" /\ pc = "loop" /\ m.resume = 7 /\ LoopPass) =>
         (pc' = "loop" /\ lastOp' = "ComputeResidual")]_vars

\* C24: the update that ends a full inner loop runs with inner index
\* i = Restart - 1.
C24_UpdateIndex ==
    (method = "GMRES" /\ pc = "loop" /\ m.resume = 7) => m.i = m.Restart - 1

\* C25: for 1 <= Restart <= dim no index of GMRES leaves the arrays Init
\* allocated.
C25_GMRESInBounds ==
    method = "GMRES" => panicMsg # OutOfRange

\* C26: inner step i stores |w| at offset i+1 of column i of h, that is at
\* i*(Restart+1) + i + 1, the entry the new rotation is computed from.
C26_SubDiagonalEntry ==
    (method = "GMRES" /\ m.hSub # -1
       /\ (m.resume = 6 \/ (m.resume = 5 /\ pc = "panicked"))) =>
        m.hSub = m.i * (m.Restart + 1) + m.i + 1

\* C27: the requests of GMRES follow the cycle PSolve, then MatVec, PSolve,
\* CheckResidualNorm per inner step (NoOperation in between), EndIteration
\* after a converged check or after ComputeResidual and one more check; every
\* Iterate call of the cycle yields its request.
C27_GMRESCycle ==
    [][(method = "GMRES" /\ LoopPass) =>
         /\ pc' # "panicked"
         /\ lastOp \in {"none", "EndIteration"} => lastOp' = "PSolve"
         /\ lastOp = "PSolve" => lastOp' \in {"MatVec", "CheckResidualNorm"}
         /\ lastOp = "MatVec" => lastOp' = "PSolve"
         /\ lastOp = "CheckResidualNorm" =>
              IF ctx.Converged THEN lastOp' = "EndIteration"
              ELSE lastOp' \in {"NoOperation", "EndIteration"}
         /\ lastOp = "NoOperation" =>
              lastOp' \in {"MatVec", "NoOperation", "ComputeResidual"}
         /\ lastOp = "ComputeResidual" => lastOp' = "CheckResidualNorm"
      ]_vars

\* C28: GMRES.Init goes on exactly when Restart is 0 (then Restart = dim) or
\* in [1, dim]; otherwise it panics before any Iterate call.
C28_RestartValidation ==
    (method = "GMRES" /\ calls.Init > 0) =>
        IF given.Restart = 0 \/ (1 <= given.Restart /\ given.Restart <= b.dim)
          THEN /\ m.Restart = (IF given.Restart = 0 THEN b.dim ELSE given.Restart)
               /\ panicMsg # InvalidRestart
          ELSE /\ pc = "panicked"
               /\ panicMsg = InvalidRestart
               /\ calls.Iterate = 0
               /\ lastOp = "none"
               /\ stats.Iterations = 0

\* C28 witness: a Restart above the dimension is refused.
C28_Witness ==
    /\ pc = "panicked"
    /\ panicMsg = InvalidRestart
    /\ given.Restart > b.dim
    /\ b.dim >= 1
    /\ calls.Iterate = 0

\* C29: CG requests PSolve (r to z), MatVec (p to Ap), the convergence check
\* and EndIteration, in this order and nothing else; an EndIteration without
\* convergence leaves resume = 1, first cleared and rhoPrev = rho of the
\* iteration just finished.
C29_CGSequence ==
    [][(method = "CG" /\ LoopPass) =>
         /\ pc' # "panicked"
         /\ lastOp \in {"none", "EndIteration"}
              => (lastOp' = "PSolve" /\ ctx'.Src = "r" /\ ctx'.Dst = "z")
         /\ lastOp = "PSolve"
              => (lastOp' = "MatVec" /\ ctx'.Src = "p" /\ ctx'.Dst = "Ap")
         /\ lastOp = "MatVec" => lastOp' = "CheckResidualNorm"
         /\ lastOp = "CheckResidualNorm" => lastOp' = "EndIteration"
         /\ (lastOp' = "EndIteration" /\ ~ctx'.Converged) =>
              /\ m'.resume = 1
              /\ ~m'.first
              /\ m'.rhoPrev = m.rho
              /\ m'.rhoPrev = stats'.Iterations
      ]_vars

\* C29 witness: the second iteration of CG has computed its rho and asked
\* for the product, with rhoPrev from the first.
C29_Witness ==
    /\ pc = "loop"
    /\ method = "CG"
    /\ lastOp = "MatVec"
    /\ stats.Iterations = 1
    /\ ~m.first
    /\ m.rhoPrev = 1
    /\ m.rho = 2

\* C30: the check CG requests is decided on the norm of the residual CG
\* stored in ctx.Residual in the same iteration.
C30_CGCheckUsesResidual ==
    (method = "CG" /\ Checked) =>
        /\ lastCheck.norm = ctx.Residual
        /\ ctx.Converged = Criterion(ctx.Residual, bnorm, settings.Tolerance)

\* The callbacks and operators the driver has invoked are the same after the step.
NothingInvoked ==
    /\ calls'.MatVec = calls.MatVec
    /\ calls'.MatTransVec = calls.MatTransVec
    /\ calls'.PSolve = calls.PSolve
    /\ calls'.PSolveTrans = calls.PSolveTrans
    /\ calls'.PRequests = calls.PRequests
    /\ calls'.EndIterations = calls.EndIterations

RhoError == "iterative: rho breakdown"
OmegaError == "iterative: omega breakdown"

\* C31: every iteration of BiCG requests PSolve (residual to z), PSolveTrans
\* (rt to zt), MatVec (p to the buffer of z, which holds q), MatTransVec (pt to
\* the buffer of zt, which holds qt), the convergence check and EndIteration,
\* in this order; in place of MatVec the error "rho breakdown" is returned
\* exactly when rho is within eps^2 of zero, and then nothing more is
\* requested in that iteration.
C31_BiCGSequence ==
    [][(method = "BiCG" /\ LoopPass) =>
         /\ lastOp \in {"none", "EndIteration"}
              => (lastOp' = "PSolve" /\ ctx'.Src = "Residual" /\ ctx'.Dst = "z")
         /\ lastOp = "PSolve"
              => (lastOp' = "PSolveTrans" /\ ctx'.Src = "rt" /\ ctx'.Dst = "zt")
         /\ lastOp = "PSolveTrans" =>
              IF m'.rhoSign = "tiny"
                THEN /\ pc' = "returned"
                     /\ result'.err = RhoError
                     /\ NothingInvoked
                     /\ m'.resume = 0
                ELSE lastOp' = "MatVec" /\ ctx'.Src = "p" /\ ctx'.Dst = "z"
         /\ lastOp = "MatVec"
              => (lastOp' = "MatTransVec" /\ ctx'.Src = "pt" /\ ctx'.Dst = "zt")
         /\ lastOp = "MatTransVec" => lastOp' = "CheckResidualNorm"
         /\ lastOp = "CheckResidualNorm" => lastOp' = "EndIteration"
         /\ (pc' = "returned" /\ result'.err = RhoError) => lastOp = "PSolveTrans"
      ]_vars

\* C31 witness: the second iteration of BiCG has found a negative rho of
\* large magnitude and asked for the product.
C31_Witness ==
    /\ pc = "loop"
    /\ method = "BiCG"
    /\ lastOp = "MatVec"
    /\ stats.Iterations = 1
    /\ m.rhoSign = "neg"

\* C32: every iteration of BiCGSTAB requests PSolve (p to phat), MatVec (phat
\* to v) and a check on the norm of ctx.Residual; when that check converged,
\* EndIteration at once; otherwise PSolve (the residual, which holds s, to
\* shat), MatVec (shat to t), a second check, and then EndIteration or an
\* error: three or six operations before each EndIteration.
C32_BiCGSTABSequence ==
    [][(method = "BiCGSTAB" /\ LoopPass) =>
         /\ m.resume \in 1..7
         /\ m.resume = 1 =>
              /\ lastOp \in {"none", "EndIteration"}
              /\ \/ lastOp' = "PSolve" /\ ctx'.Src = "p" /\ ctx'.Dst = "phat"
                 \/ pc' = "returned" /\ result'.err = RhoError
         /\ m.resume = 2
              => (lastOp' = "MatVec" /\ ctx'.Src = "phat" /\ ctx'.Dst = "v")
         /\ m.resume \in {3, 6}
              => (lastOp' = "CheckResidualNorm" /\ ctx'.ResidualNorm = ctx'.Residual)
         /\ m.resume = 4 =>
              IF ctx.Converged
                THEN lastOp' = "EndIteration" /\ calls.Since = 3
                ELSE lastOp' = "PSolve" /\ ctx'.Src = "Residual" /\ ctx'.Dst = "shat"
         /\ m.resume = 5
              => (lastOp' = "MatVec" /\ ctx'.Src = "shat" /\ ctx'.Dst = "t")
         /\ m.resume = 7 =>
              \/ lastOp' = "EndIteration" /\ calls.Since = 6
              \/ pc' = "returned" /\ result'.err = OmegaError
         /\ lastOp' = "EndIteration" => m.resume \in {4, 7}
      ]_vars

\* C32 witness: the second iteration of BiCGSTAB has asked for its second
\* check, the first iteration having taken the long path.
C32_Witness ==
    /\ pc = "loop"
    /\ method = "BiCGSTAB"
    /\ stats.Iterations = 1
    /\ m.resume = 7
    /\ lastOp = "CheckResidualNorm"

\* C33: BiCGSTAB changes ctx.X at two places only, by alpha*phat when the
\* early check converged and by alpha*phat and omega*shat before the second
\* check; an iteration that ends with EndIteration has added alpha*phat once.
C33_AlphaAddedOnce ==
    [][(method = "BiCGSTAB" /\ LoopPass) =>
         /\ ctx'.X = ctx.X + (CASE m.resume = 4 /\ ctx.Converged -> 1
                                [] m.resume = 6 -> 2
                                [] OTHER -> 0)
         /\ lastOp' = "EndIteration" => m'.added = 1
      ]_vars

\* C33 witness: BiCGSTAB converged at the early check of its first iteration.
C33_Witness ==
    /\ pc = "returned"
    /\ method = "BiCGSTAB"
    /\ result.err = "nil"
    /\ calls.Iterate = 4
    /\ m.added = 1
    /\ ctx.X = 1

\* C34: BiCGSTAB computes rho at the start of every iteration and returns
\* "rho breakdown" exactly when rho < eps^2, negative values included, without
\* requesting an operation or touching the context; it fails so nowhere else.
C34_SignedRhoBreakdown ==
    [][(method = "BiCGSTAB" /\ LoopPass) =>
         /\ m.resume = 1 =>
              /\ m'.rho = m.rho + 1
              /\ IF m'.rhoSign \in {"neg", "tiny"}
                   THEN /\ pc' = "returned"
                        /\ result'.err = RhoError
                        /\ NothingInvoked
                        /\ ctx' = ctx
                        /\ m'.resume = 0
                   ELSE lastOp' = "PSolve" /\ result'.err # RhoError
         /\ (pc' = "returned" /\ result'.err = RhoError) => m.resume = 1
      ]_vars

\* C34 witness: BiCGSTAB returned the breakdown on a negative rho.
C34_Witness ==
    /\ pc = "returned"
    /\ method = "BiCGSTAB"
    /\ result.err = RhoError
    /\ m.rhoSign = "neg"

\* C35: after its second check BiCGSTAB returns EndIteration when the check
\* converged, whatever omega is; otherwise "omega breakdown" when omega is
\* within eps^2 of zero, without EndIteration, so that the iteration is not
\* counted; otherwise it saves rho in rhoPrev and returns EndIteration.
C35_AfterSecondCheck ==
    [][(method = "BiCGSTAB" /\ LoopPass /\ m.resume = 7) =>
         IF ctx.Converged
           THEN /\ lastOp' = "EndIteration"
                /\ stats'.Iterations = stats.Iterations + 1
                /\ pc' = "returned"
                /\ result'.err = "nil"
           ELSE IF m.omegaSmall
             THEN /\ pc' = "returned"
                  /\ result'.err = OmegaError
                  /\ NothingInvoked
                  /\ result'.Stats.Iterations = stats.Iterations
             ELSE /\ lastOp' = "EndIteration"
                  /\ stats'.Iterations = stats.Iterations + 1
                  /\ m'.rhoPrev = m.rho
                  /\ m'.resume = 1
      ]_vars

\* C35 witness: BiCGSTAB returned success from the second check with a tiny omega.
C35_Witness ==
    /\ pc = "returned"
    /\ method = "BiCGSTAB"
    /\ result.err = "nil"
    /\ m.omegaSmall
    /\ ctx.X = 2

\* The operations a method may request between two EndIterations.
OpsBound ==
    CASE method = "CG" -> 3
      [] method = "BiCG" -> 5
      [] method = "BiCGSTAB" -> 6
      [] OTHER -> 4 * m.Restart + 4

\* C36: a solve that began iterating requests a bounded number of operations
\* between two EndIterations (CG 3, BiCG 5, BiCGSTAB 6 at most, GMRES a number
\* bounded in the restart length), stays within the iteration limit, and ends
\* by returning: with success on convergence, with the error of the method or
\* of the preconditioner, or with the limit error.
C36_LoopEnds ==
    /\ pc = "loop" => (calls.Since <= OpsBound /\ stats.Iterations < settings.MaxIterations)
    /\ (pc = "returned" /\ calls.Iterate > 0) =>
         /\ result.err \in {"nil", RhoError, OmegaError, PSolveError, LimitError}
         /\ result.err = "nil" => ctx.Converged
    /\ (pc = "panicked" /\ calls.Iterate > 0) => panicMsg = NilCall

\* C37: after BiCG or BiCGSTAB returned a breakdown from Iterate, one more
\* call of Iterate without Init panics.
C37_PanicsAfterBreakdown ==
    (pc = "post" /\ method \in {"BiCG", "BiCGSTAB"} /\ result.err \in Breakdowns)
        => post = "panicked"

\* C38: a GMRES value whose Restart was left 0 is initialised a second time
\* without a panic, and runs with a restart length equal to the new dimension.
C38_RestartFollowsDim ==
    (pc = "reinit" /\ method = "GMRES" /\ given.Restart = 0)
        => (post = "init" /\ m.Restart = m.ldv)

\* C39: whenever LinearSolve returns for a system of positive dimension,
\* Stats.ResidualNorm is the residual norm of the context, the initial one
\* when no iteration was made.
C39_StatsNormIsFinal ==
    (pc = "returned" /\ given.dim > 0)
        => result.Stats.ResidualNorm = ctx.ResidualNorm

====
